---- MODULE Spec2Model ----
(***************************************************************************)
(* The document Processor of the agent (agent/framework/processor):        *)
(* Submit / Cancel / Start / Stop, the two task pools, the command and     *)
(* cancel job bodies and the four document locations on disk; and, each on *)
(* its own, three plugins: the agent update plugin (updatessmagent), the   *)
(* inventory plugin and the Windows container install steps.               *)
(***************************************************************************)
EXTENDS Integers, Sequences, FiniteSets, TLC

VARIABLES
    store,              \* on-disk document state: location -> document_id -> content
    sendCommandPool,    \* p.sendCommandPool: queue, running jobs, shutdown flag
    cancelCommandPool,  \* p.cancelCommandPool
    resChan,            \* p.resChan: "open" or "closed"
    rebootPending,      \* the rebooter latch
    panicked,           \* the process died of a send on the closed resChan
    universe,           \* the scenario: documents handed in, outcomes the plugins have
    accepted,           \* history: documents Submit or Cancel has persisted
    ops,                \* number of API calls so far
    err,                \* the error the last API call returned to its caller
    plugin              \* the plugin a worker is executing, modelled on its own below

vars == <<store, sendCommandPool, cancelCommandPool, resChan, rebootPending,
          panicked, universe, accepted, ops, err, plugin>>

----------------------------------------------------------------------------
\* Bounds of the model

\* API calls (Submit, Cancel, Start, Stop) in one behaviour; restarts are not counted
MaxOps == 4

\* Configuration of the Processor
CommandWorkerLimit == 2
CancelWorkerLimit == 1
RetryLimit == 1
QueueCap == 2

----------------------------------------------------------------------------
\* Documents

Locations == {"pending", "current", "completed", "corrupt"}

AllDocs == 1 .. 6

\* model.DocumentType of each document
DocType(d) ==
    CASE d = 1 -> "SendCommand"
      [] d = 2 -> "CancelCommand"
      [] d = 3 -> "Other"
      [] d = 4 -> "SendCommand"
      [] d = 5 -> "Association"
      [] OTHER -> "CancelCommand"

\* DocumentInformation.MessageID
MessageID(d) ==
    CASE d = 1 -> "m1"
      [] d = 2 -> "m2"
      [] d = 3 -> "m3"
      [] d = 4 -> "m1"
      [] d = 5 -> "m5"
      [] OTHER -> "m6"

\* DocumentInformation.AssociationID ("" when the document is no association)
AssociationID(d) == IF d = 5 THEN "a5" ELSE ""

\* CancelInformation.CancelMessageID ("" when the document is no cancel-document)
CancelMessageID(d) ==
    CASE d = 2 -> "m1"
      [] d = 6 -> "m5"
      [] OTHER -> ""

\* the ordered plugin list of the document
Plugins(d) ==
    CASE d = 1 -> <<"A", "B">>
      [] d = 2 -> <<>>
      [] d = 6 -> <<>>
      [] OTHER -> <<"A">>

\* appconfig.PluginNameCloudWatch, the plugin the long-running-plugin manager owns
PluginNameCloudWatch == "aws:cloudWatch"

\* PluginResult.PluginName of the plugin with the given id
PluginName(p) == IF p = "B" THEN PluginNameCloudWatch ELSE "aws:runShellScript"

IsCancelDoc(d) == CancelMessageID(d) # ""

SupportedDocTypes == {"SendCommand", "CancelCommand", "Association"}

isSupportedDocumentType(t) == t \in SupportedDocTypes

IsAssociation(d) == AssociationID(d) # ""

\* variant of the job id that uses the message id for every document
JobID_MessageOnly(d) == MessageID(d)

\* the job id p.submit and p.Cancel derive from the document
JobID(d) == IF IsAssociation(d) THEN AssociationID(d) ELSE MessageID(d)

----------------------------------------------------------------------------
\* DocumentStore (docmanager)

\* a document as the callers hand it in; the status and debug_info of a cancel-document
\* are tracked, the plugin result slots of a command document are not
NewDocState == [rc |-> 0, status |-> "", debug |-> ""]

\* every location holds the documents stored under it, keyed by document_id
EmptyStore == [l \in Locations |-> <<>>]

Has(st, l, d) == d \in DOMAIN st[l]

PersistData(st, d, l, content) ==
    [st EXCEPT ![l] = [x \in DOMAIN st[l] \cup {d} |-> IF x = d THEN content ELSE st[l][x]]]

Remove(st, d, l) == [st EXCEPT ![l] = [x \in DOMAIN st[l] \ {d} |-> st[l][x]]]

\* a rename from one location's directory to another's; nothing moves when the
\* source file is missing
MoveDocumentState(st, d, from, to) ==
    IF Has(st, from, d)
    THEN Remove(PersistData(st, d, to, st[from][d]), d, from)
    ELSE st

GetDocumentInterimState(st, d, l) == st[l][d]

DocsIn(st, l) == DOMAIN st[l]

LocationsOf(st, d) == {l \in Locations : Has(st, l, d)}

----------------------------------------------------------------------------
\* WorkerPool (task.Pool)

EmptyPool == [queue |-> <<>>, running |-> {}, shutdown |-> FALSE]

QueuedIds(pool) == {pool.queue[i].id : i \in DOMAIN pool.queue}

RunningIds(pool) == {j.id : j \in pool.running}

JobIds(pool) == QueuedIds(pool) \cup RunningIds(pool)

\* Submit(job_id, body): DuplicateJobId, PoolShutdown or a full queue reject
PoolSubmit(pool, tok) ==
    IF pool.shutdown \/ tok.id \in JobIds(pool) \/ Len(pool.queue) >= QueueCap
    THEN [ok |-> FALSE, pool |-> pool]
    ELSE [ok |-> TRUE, pool |-> [pool EXCEPT !.queue = Append(@, tok)]]

RemoveAt(q, i) == SubSeq(q, 1, i - 1) \o SubSeq(q, i + 1, Len(q))

SignalToken(j, how) == IF j.token = "active" THEN [j EXCEPT !.token = how] ELSE j

\* Cancel(job_id): a queued job is removed, a running one has its token signalled
PoolCancel(pool, id) ==
    IF id \in QueuedIds(pool)
    THEN LET i == CHOOSE k \in DOMAIN pool.queue : pool.queue[k].id = id
         IN  [found |-> TRUE, pool |-> [pool EXCEPT !.queue = RemoveAt(@, i)]]
    ELSE IF id \in RunningIds(pool)
    THEN [found |-> TRUE,
          pool |-> [pool EXCEPT !.running =
                        {IF j.id = id THEN SignalToken(j, "cancelled") ELSE j : j \in @}]]
    ELSE [found |-> FALSE, pool |-> pool]

\* ShutdownAndWait, first half: every token is signalled, no new work is accepted
PoolShutdown(pool) ==
    [queue |-> [i \in DOMAIN pool.queue |-> SignalToken(pool.queue[i], "shutdown")],
     running |-> {SignalToken(j, "shutdown") : j \in pool.running},
     shutdown |-> TRUE]

\* ShutdownAndWait, second half: jobs that never started are abandoned
PoolAbandon(pool) == [pool EXCEPT !.queue = <<>>]

----------------------------------------------------------------------------
\* Executor (executer.Executer): results and the aggregate status

NoRes == [last |-> "-", status |-> ""]

PluginOutcomes == {"Success", "Failed", "SuccessAndReboot", "InProgress"}

\* the documents and plugin outcomes of a scenario
Scenario(docs, outcomes) == [docs |-> docs, outcomes |-> outcomes]

Rank(s) ==
    CASE s = "Failed" -> 5
      [] s = "Cancelled" -> 4
      [] s = "Shutdown" -> 3
      [] s = "SuccessAndReboot" -> 2
      [] s = "InProgress" -> 1
      [] OTHER -> 0

Worst(a, b) == IF Rank(b) > Rank(a) THEN b ELSE a

TokenStatus(token) == IF token = "cancelled" THEN "Cancelled" ELSE "Shutdown"

----------------------------------------------------------------------------
\* Processor: job tokens and the pure parts of Submit and of the recovery

JobToken(d, docState, origin) ==
    [id |-> JobID(d), doc |-> d, rc |-> docState.rc, token |-> "active",
     origin |-> origin]

\* p.submit: the job id is the association id or the message id
submit(pool, d, docState, origin) ==
    PoolSubmit(pool, JobToken(d, docState, origin))

\* variant of p.Submit that enqueues without writing the document to pending
SubmitDoc_NoPersist(st, pool, d, docState, origin) ==
    LET r == submit(pool, d, docState, origin)
    IN  IF r.ok
        THEN [store |-> st, pool |-> r.pool]
        ELSE [store |-> MoveDocumentState(st, d, "pending", "corrupt"), pool |-> pool]

\* variant of p.Submit that leaves a rejected document in pending
SubmitDoc_KeepPending(st, pool, d, docState, origin) ==
    LET st1 == PersistData(st, d, "pending", docState)
        r == submit(pool, d, docState, origin)
    IN  IF r.ok
        THEN [store |-> st1, pool |-> r.pool]
        ELSE [store |-> st1, pool |-> pool]

\* p.Submit: persist in pending, enqueue, move to corrupt when the pool rejects
SubmitDoc(st, pool, d, docState, origin) ==
    LET st1 == PersistData(st, d, "pending", docState)
        r == submit(pool, d, docState, origin)
    IN  IF r.ok
        THEN [store |-> st1, pool |-> r.pool]
        ELSE [store |-> MoveDocumentState(st1, d, "pending", "corrupt"), pool |-> pool]

\* variant of the recovery loop whose retry check uses > instead of >=
InProgressOne_OffByOne(st, pool, d) ==
    LET docState == GetDocumentInterimState(st, d, "current")
    IN  IF docState.rc > RetryLimit
        THEN [store |-> MoveDocumentState(st, d, "current", "corrupt"), pool |-> pool]
        ELSE LET ds == [docState EXCEPT !.rc = @ + 1]
                 st1 == PersistData(st, d, "current", ds)
             IN  IF isSupportedDocumentType(DocType(d))
                 THEN LET r == submit(pool, d, ds, "current")
                      IN  IF r.ok
                          THEN [store |-> st1, pool |-> r.pool]
                          ELSE [store |-> MoveDocumentState(st1, d, "current", "corrupt"),
                                pool |-> pool]
                 ELSE [store |-> st1, pool |-> pool]

\* one iteration of the loop of processInProgressDocuments
InProgressOne(st, pool, d) ==
    LET docState == GetDocumentInterimState(st, d, "current")
    IN  IF docState.rc >= RetryLimit
        THEN [store |-> MoveDocumentState(st, d, "current", "corrupt"), pool |-> pool]
        ELSE LET ds == [docState EXCEPT !.rc = @ + 1]
                 st1 == PersistData(st, d, "current", ds)
             IN  IF isSupportedDocumentType(DocType(d))
                 THEN LET r == submit(pool, d, ds, "current")
                      IN  IF r.ok
                          THEN [store |-> st1, pool |-> r.pool]
                          ELSE [store |-> MoveDocumentState(st1, d, "current", "corrupt"),
                                pool |-> pool]
                 ELSE [store |-> st1, pool |-> pool]

\* one iteration of the loop of processPendingDocuments
PendingOne(st, pool, d) ==
    LET docState == GetDocumentInterimState(st, d, "pending")
    IN  IF isSupportedDocumentType(DocType(d))
        THEN SubmitDoc(st, pool, d, docState, "pending")
        ELSE [store |-> st, pool |-> pool]

RECURSIVE processInProgressDocuments(_, _, _)
processInProgressDocuments(st, pool, files) ==
    IF files = <<>>
    THEN [store |-> st, pool |-> pool]
    ELSE LET r == InProgressOne(st, pool, Head(files))
         IN  processInProgressDocuments(r.store, r.pool, Tail(files))

RECURSIVE processPendingDocuments(_, _, _)
processPendingDocuments(st, pool, files) ==
    IF files = <<>>
    THEN [store |-> st, pool |-> pool]
    ELSE LET r == PendingOne(st, pool, Head(files))
         IN  processPendingDocuments(r.store, r.pool, Tail(files))

\* the directory listings ReadDir may return for a set of files
Listings(S) ==
    {f \in [1 .. Cardinality(S) -> S] : \A i, j \in DOMAIN f : i # j => f[i] # f[j]}

\* variant of Start that recovers pending before current
StartRecovery_PendingFirst(st, pool, inProgress, pending) ==
    LET r == processPendingDocuments(st, pool, pending)
    IN  processInProgressDocuments(r.store, r.pool, inProgress)

\* Start: the documents of current first, then those of pending
StartRecovery(st, pool, inProgress, pending) ==
    LET r == processInProgressDocuments(st, pool, inProgress)
    IN  processPendingDocuments(r.store, r.pool, pending)

----------------------------------------------------------------------------
\* Initial state: NewEngineProcessor on an empty data directory

\* Submit, Cancel and Stop have no return value; Start returns a nil error once the
\* Processor is constructed and the instance id is known
NoError == "nil"

\* the Processor is modelled with the plugins' own steps abstracted to their results
NoPlugin == [kind |-> "none"]

InitProcessor(U) ==
    /\ store = EmptyStore
    /\ sendCommandPool = EmptyPool
    /\ cancelCommandPool = EmptyPool
    /\ resChan = "open"
    /\ rebootPending = FALSE
    /\ panicked = FALSE
    /\ universe = U
    /\ accepted = {}
    /\ ops = 0
    /\ err = NoError

InitWith(U) == InitProcessor(U) /\ plugin = NoPlugin

\* a command document with two plugins and the cancel-document that targets it
Init == InitWith(Scenario({1, 2}, {"Success", "Failed", "SuccessAndReboot"}))

\* a command document of a type outside the supported set, and a cancel-document
InitUnsupported == InitWith(Scenario({2, 3}, {"Success", "SuccessAndReboot"}))

\* two command documents with different job ids, and a cancel-document
InitTwoCommands == InitWith(Scenario({2, 4, 5}, {"Success"}))

\* an association document and the cancel-document that targets its message id
InitAssociation == InitWith(Scenario({5, 6}, {"Success"}))

\* a command document whose plugin may report in-progress when it returns, as the
\* update plugin does after handing over to the updater, and a cancel-document
InitUpdate == InitWith(Scenario({2, 4}, {"Success", "InProgress"}))

Alive == ~panicked


----------------------------------------------------------------------------
\* API calls

Submit(d) ==
    /\ Alive /\ ops < MaxOps
    /\ ~IsCancelDoc(d)
    /\ LET r == SubmitDoc(store, sendCommandPool, d, NewDocState, "submit")
       IN  /\ store' = r.store
           /\ sendCommandPool' = r.pool
    /\ accepted' = accepted \cup {d}
    /\ ops' = ops + 1
    /\ err' = NoError
    /\ UNCHANGED <<cancelCommandPool, resChan, rebootPending, panicked, universe, plugin>>

\* variant of Cancel that treats a rejection by the cancel pool as Submit does, moving
\* the cancel-document to corrupt
Cancel_CorruptOnReject(d) ==
    /\ Alive /\ ops < MaxOps
    /\ IsCancelDoc(d)
    /\ LET st1 == PersistData(store, d, "pending", NewDocState)
           r == PoolSubmit(cancelCommandPool, [id |-> JobID(d), doc |-> d, token |-> "active"])
       IN  /\ store' = IF r.ok THEN st1 ELSE MoveDocumentState(st1, d, "pending", "corrupt")
           /\ cancelCommandPool' = r.pool
    /\ accepted' = accepted \cup {d}
    /\ ops' = ops + 1
    /\ err' = NoError
    /\ UNCHANGED <<sendCommandPool, resChan, rebootPending, panicked, universe, plugin>>

Cancel(d) ==
    /\ Alive /\ ops < MaxOps
    /\ IsCancelDoc(d)
    /\ store' = PersistData(store, d, "pending", NewDocState)
    /\ cancelCommandPool' =
           PoolSubmit(cancelCommandPool, [id |-> JobID(d), doc |-> d, token |-> "active"]).pool
    /\ accepted' = accepted \cup {d}
    /\ ops' = ops + 1
    /\ err' = NoError
    /\ UNCHANGED <<sendCommandPool, resChan, rebootPending, panicked, universe, plugin>>

Start ==
    /\ Alive /\ ops < MaxOps
    /\ \E inProgress \in Listings(DocsIn(store, "current")) :
       \E pending \in Listings(DocsIn(store, "pending")) :
          LET r == StartRecovery(store, sendCommandPool, inProgress, pending)
          IN  /\ store' = r.store
              /\ sendCommandPool' = r.pool
    /\ ops' = ops + 1
    /\ err' = NoError
    /\ UNCHANGED <<cancelCommandPool, resChan, rebootPending, panicked, universe, accepted, plugin>>

\* Stop, up to the point where both pools have been told to shut down
StopBegin ==
    /\ Alive /\ ops < MaxOps
    /\ ~sendCommandPool.shutdown
    /\ sendCommandPool' = PoolShutdown(sendCommandPool)
    /\ cancelCommandPool' = PoolShutdown(cancelCommandPool)
    /\ ops' = ops + 1
    /\ err' = NoError
    /\ UNCHANGED <<store, resChan, rebootPending, panicked, universe, accepted, plugin>>

\* variant of the end of Stop that waits until both pools have drained, however long
\* that takes
StopEnd_NoTimeout ==
    /\ Alive
    /\ sendCommandPool.shutdown /\ resChan = "open"
    /\ JobIds(sendCommandPool) = {} /\ JobIds(cancelCommandPool) = {}
    /\ sendCommandPool' = PoolAbandon(sendCommandPool)
    /\ cancelCommandPool' = PoolAbandon(cancelCommandPool)
    /\ resChan' = "closed"
    /\ UNCHANGED <<store, rebootPending, panicked, universe, accepted, ops, err, plugin>>

\* Stop, after wg.Wait(): the pools have drained or their timeout has elapsed
StopEnd ==
    /\ Alive
    /\ sendCommandPool.shutdown /\ resChan = "open"
    /\ sendCommandPool' = PoolAbandon(sendCommandPool)
    /\ cancelCommandPool' = PoolAbandon(cancelCommandPool)
    /\ resChan' = "closed"
    /\ UNCHANGED <<store, rebootPending, panicked, universe, accepted, ops, err, plugin>>

\* the process dies (crash or reboot) and a new Processor is constructed
Restart ==
    /\ sendCommandPool' = EmptyPool
    /\ cancelCommandPool' = EmptyPool
    /\ resChan' = "open"
    /\ rebootPending' = FALSE
    /\ panicked' = FALSE
    /\ err' = NoError
    /\ UNCHANGED <<store, universe, accepted, ops, plugin>>

----------------------------------------------------------------------------
\* Workers of the two pools

ReplaceJob(pool, j, j2) == [pool EXCEPT !.running = (@ \ {j}) \cup {j2}]

RemoveJob(pool, j) == [pool EXCEPT !.running = @ \ {j}]

\* a command job at its start; emitted and sent are the last_plugin fields of the
\* results the Executor has put on its stream and of those processCommand has handed
\* to resChan, in order; lrpm counts, per plugin result of the result handled last, the
\* calls of manager.Invoke
NewCommandRun(t) ==
    [id |-> t.id, doc |-> t.doc, rc |-> t.rc, token |-> t.token, origin |-> t.origin,
     pc |-> "begin", k |-> 1, agg |-> "Success", final |-> "",
     res |-> NoRes, isReboot |-> FALSE, sawReboot |-> FALSE,
     emitted |-> <<>>, sent |-> <<>>, lrpm |-> <<>>]

\* a free worker of the command pool takes the job at the head of the queue
DispatchCommand ==
    /\ Alive
    /\ sendCommandPool.queue # <<>>
    /\ Cardinality(sendCommandPool.running) < CommandWorkerLimit
    /\ sendCommandPool' =
           [sendCommandPool EXCEPT
               !.queue = Tail(@),
               !.running = @ \cup {NewCommandRun(Head(sendCommandPool.queue))}]
    /\ UNCHANGED <<store, cancelCommandPool, resChan, rebootPending, panicked,
                   universe, accepted, ops, err, plugin>>

DispatchCancel ==
    /\ Alive
    /\ cancelCommandPool.queue # <<>>
    /\ Cardinality(cancelCommandPool.running) < CancelWorkerLimit
    /\ LET t == Head(cancelCommandPool.queue)
       IN  cancelCommandPool' =
               [cancelCommandPool EXCEPT
                   !.queue = Tail(@),
                   !.running = @ \cup {[id |-> t.id, doc |-> t.doc, token |-> t.token,
                                        pc |-> "cancel", found |-> FALSE]}]
    /\ UNCHANGED <<store, sendCommandPool, resChan, rebootPending, panicked,
                   universe, accepted, ops, err, plugin>>

----------------------------------------------------------------------------
\* processCommand, the body of a command job

\* the Executor's final aggregate result (last_plugin empty)
FinalResult(status) == [last |-> "", status |-> status]

\* the head of processCommand: pending -> current, the Executor is created and run;
\* a document without plugins yields the final result at once
ProcessCommandBegin(j) ==
    /\ Alive
    /\ j \in sendCommandPool.running /\ j.pc = "begin"
    /\ store' = MoveDocumentState(store, j.doc, "pending", "current")
    /\ sendCommandPool' =
           ReplaceJob(sendCommandPool, j,
                      IF Plugins(j.doc) = <<>>
                      THEN [j EXCEPT !.pc = "closed", !.res = FinalResult(j.agg),
                                     !.emitted = Append(@, "")]
                      ELSE [j EXCEPT !.pc = "plugins"])
    /\ UNCHANGED <<cancelCommandPool, resChan, rebootPending, panicked,
                   universe, accepted, ops, err, plugin>>

\* the content docStore.Save writes: the docState the job holds in memory
SavedState(j) == [rc |-> j.rc, status |-> "", debug |-> ""]

\* the Executor after plugin k returned s: the incremental result is on the stream;
\* after the last plugin or a reboot request the final result follows it
AfterPlugin(j, s, fin) ==
    LET agg == Worst(j.agg, s)
        res == [last |-> Plugins(j.doc)[j.k], status |-> agg]
    IN  IF s = "SuccessAndReboot" \/ j.k = Len(Plugins(j.doc))
        THEN [j EXCEPT !.agg = agg, !.res = res, !.pc = "closed", !.final = fin,
                       !.emitted = Append(@, res.last)]
        ELSE [j EXCEPT !.agg = agg, !.res = res, !.k = @ + 1,
                       !.emitted = Append(@, res.last)]

\* Executor.Run, one plugin: the token is checked, the plugin runs, the document is
\* persisted and the result is put on the Executor's stream
ExecutorPlugin(j) ==
    /\ Alive
    /\ j \in sendCommandPool.running /\ j.pc = "plugins" /\ j.res = NoRes
    /\ IF j.token # "active"
       THEN LET agg == Worst(j.agg, TokenStatus(j.token))
            IN  /\ sendCommandPool' =
                       ReplaceJob(sendCommandPool, j,
                                  [j EXCEPT !.agg = agg, !.pc = "closed",
                                            !.res = FinalResult(agg),
                                            !.emitted = Append(@, "")])
                /\ store' = store
       ELSE \E s \in universe.outcomes :
            \E fin \in IF s = "SuccessAndReboot" THEN {Worst(j.agg, s), s}
                                                 ELSE {Worst(j.agg, s)} :
               /\ store' = PersistData(store, j.doc, "current", SavedState(j))
               /\ sendCommandPool' = ReplaceJob(sendCommandPool, j, AfterPlugin(j, s, fin))
    /\ UNCHANGED <<cancelCommandPool, resChan, rebootPending, panicked,
                   universe, accepted, ops, err, plugin>>

\* res.PluginResults of the result the job holds: the result slots filled so far, keyed
\* by plugin id
PluginResults(j) == {j.emitted[i] : i \in DOMAIN j.emitted} \ {""}

\* variant of handleCloudwatchPlugin that hands every plugin result to the manager
handleCloudwatchPlugin_AnyPlugin(pluginResults) ==
    [p \in pluginResults |-> 1]

\* handleCloudwatchPlugin: the number of manager.Invoke calls for each plugin result
handleCloudwatchPlugin(pluginResults) ==
    [p \in pluginResults |-> IF PluginName(p) = PluginNameCloudWatch THEN 1 ELSE 0]

\* the job's state after handleCloudwatchPlugin and resChan <- res
AfterSend(j) ==
    [j EXCEPT !.res = IF j.final = "" THEN NoRes ELSE FinalResult(j.final),
              !.emitted = IF j.final = "" THEN @ ELSE Append(@, ""),
              !.sent = Append(@, j.res.last),
              !.lrpm = handleCloudwatchPlugin(PluginResults(j)),
              !.final = "",
              !.isReboot = (j.res.status = "SuccessAndReboot"),
              !.sawReboot = (@ \/ j.res.status = "SuccessAndReboot")]

\* the loop body of processCommand: the result is handed to the consumer of resChan;
\* a send on the closed channel panics and takes the process down
ForwardResult(j) ==
    /\ Alive
    /\ j \in sendCommandPool.running /\ j.res # NoRes
    /\ IF resChan = "open"
       THEN /\ sendCommandPool' = ReplaceJob(sendCommandPool, j, AfterSend(j))
            /\ UNCHANGED <<cancelCommandPool, panicked>>
       ELSE /\ panicked' = TRUE
            /\ sendCommandPool' = EmptyPool
            /\ cancelCommandPool' = EmptyPool
    /\ UNCHANGED <<store, resChan, rebootPending, universe, accepted, ops, err, plugin>>

\* variant of the tail of processCommand that completes the document even on a reboot
CommandEndStore_IgnoreReboot(st, j) ==
    MoveDocumentState(st, j.doc, "current", "completed")

\* variant of the tail of processCommand that takes a last status of in-progress to
\* mean the document is not finished and leaves it in current
CommandEndStore_InProgressStays(st, j) ==
    IF j.isReboot \/ j.agg = "InProgress"
    THEN st
    ELSE MoveDocumentState(st, j.doc, "current", "completed")

\* the store after the tail of processCommand
CommandEndStore(st, j) ==
    IF j.isReboot
    THEN st
    ELSE MoveDocumentState(st, j.doc, "current", "completed")

\* the tail of processCommand: reboot detection, else current -> completed
ProcessCommandEnd(j) ==
    /\ Alive
    /\ j \in sendCommandPool.running /\ j.pc = "closed" /\ j.res = NoRes
    /\ store' = CommandEndStore(store, j)
    /\ rebootPending' = (rebootPending \/ j.isReboot)
    /\ sendCommandPool' = RemoveJob(sendCommandPool, j)
    /\ UNCHANGED <<cancelCommandPool, resChan, panicked, universe, accepted, ops, err, plugin>>

----------------------------------------------------------------------------
\* processCancelCommand, the body of a cancel job

\* variant of the cancel job that looks the target up under the cancel-document's own
\* message id
CancelTargetID_OwnMessage(d) == MessageID(d)

\* the job id processCancelCommand hands to sendCommandPool.Cancel
CancelTargetID(d) == CancelMessageID(d)

\* the docState the cancel job persists
CancelledState(found) ==
    IF found
    THEN [rc |-> 0, status |-> "Success", debug |-> "cancelled"]
    ELSE [rc |-> 0, status |-> "Failed", debug |-> "couldn't be cancelled"]

\* sendCommandPool.Cancel, then the outcome is persisted in current
ProcessCancelCommand(j) ==
    /\ Alive
    /\ j \in cancelCommandPool.running /\ j.pc = "cancel"
    /\ LET r == PoolCancel(sendCommandPool, CancelTargetID(j.doc))
       IN  /\ sendCommandPool' = r.pool
           /\ store' = PersistData(store, j.doc, "current", CancelledState(r.found))
    /\ cancelCommandPool' =
           ReplaceJob(cancelCommandPool, j,
                      [j EXCEPT !.pc = "move",
                                !.found = PoolCancel(sendCommandPool,
                                                     CancelTargetID(j.doc)).found])
    /\ UNCHANGED <<resChan, rebootPending, panicked, universe, accepted, ops, err, plugin>>

\* the tail of processCancelCommand: current -> completed
ProcessCancelCommandEnd(j) ==
    /\ Alive
    /\ j \in cancelCommandPool.running /\ j.pc = "move"
    /\ store' = MoveDocumentState(store, j.doc, "current", "completed")
    /\ cancelCommandPool' = RemoveJob(cancelCommandPool, j)
    /\ UNCHANGED <<sendCommandPool, resChan, rebootPending, panicked,
                   universe, accepted, ops, err, plugin>>

----------------------------------------------------------------------------
\* Specification

Next ==
    \/ \E d \in universe.docs : Submit(d)
    \/ \E d \in universe.docs : Cancel(d)
    \/ Start
    \/ StopBegin
    \/ StopEnd
    \/ Restart
    \/ DispatchCommand
    \/ DispatchCancel
    \/ \E j \in sendCommandPool.running : ProcessCommandBegin(j)
    \/ \E j \in sendCommandPool.running : ExecutorPlugin(j)
    \/ \E j \in sendCommandPool.running : ForwardResult(j)
    \/ \E j \in sendCommandPool.running : ProcessCommandEnd(j)
    \/ \E j \in cancelCommandPool.running : ProcessCancelCommand(j)
    \/ \E j \in cancelCommandPool.running : ProcessCancelCommandEnd(j)

Spec == Init /\ [][Next]_vars

SpecUnsupported == InitUnsupported /\ [][Next]_vars

SpecTwoCommands == InitTwoCommands /\ [][Next]_vars

SpecAssociation == InitAssociation /\ [][Next]_vars

SpecUpdate == InitUpdate /\ [][Next]_vars

\* ShutdownAndWait returns once its timeout has elapsed, so Stop is not held up for
\* ever; nothing is assumed about the workers, the plugins or the reader of resChan
SpecStopFair == InitAssociation /\ [][Next]_vars /\ WF_vars(StopEnd)

----------------------------------------------------------------------------
\* Properties

Terminal == {"completed", "corrupt"}

Live == {"pending", "current"}

\* C1: at every instant every document_id is present in at most one of the four
\* locations pending, current, completed, corrupt
C1_OneLocation ==
    \A d \in AllDocs : Cardinality(LocationsOf(store, d)) <= 1

\* C2: a job body that has returned without requesting a reboot leaves its document
\* in exactly one of completed or corrupt, and in neither pending nor current
C2_EndsTerminal ==
    [][/\ \A j \in sendCommandPool.running :
             (ProcessCommandEnd(j) /\ ~j.isReboot)
                 => LocationsOf(store', j.doc) \in {{"completed"}, {"corrupt"}}
       /\ \A j \in cancelCommandPool.running :
             ProcessCancelCommandEnd(j)
                 => LocationsOf(store', j.doc) \in {{"completed"}, {"corrupt"}}]_vars

\* C3: a document that Submit or Cancel has persisted and that has not reached
\* completed or corrupt is present in pending or current, in every state
\* (crashes and restarts included)
C3_Durable ==
    \A d \in accepted :
        LocationsOf(store, d) \cap Terminal = {} => LocationsOf(store, d) \cap Live # {}

\* a crash remnant: an accepted document in current, no job of the process holds it
C3_Witness ==
    \E d \in accepted :
        /\ LocationsOf(store, d) = {"current"}
        /\ sendCommandPool = EmptyPool /\ cancelCommandPool = EmptyPool

\* C4: no step puts a document that is in current, completed or corrupt back into
\* pending, or one that is in completed or corrupt back into current
C4_NoBackwards ==
    [][\A d \in AllDocs :
          LET before == LocationsOf(store, d)
              gained == LocationsOf(store', d) \ before
          IN  /\ "pending" \in gained => before \cap {"current", "completed", "corrupt"} = {}
              /\ "current" \in gained => before \cap Terminal = {}]_vars

\* the jobs of the command pool that belong to document d, in queue order
QueuedFor(pool, d) == SelectSeq(pool.queue, LAMBDA t : t.doc = d)

\* would the command pool accept a job for d now
Accepts(pool, d) ==
    /\ ~pool.shutdown
    /\ JobID(d) \notin JobIds(pool)
    /\ Len(pool.queue) < QueueCap

\* C5: Submit(doc) persists doc in pending and enqueues one job on the command pool;
\* when the pool rejects the job the document goes from pending to corrupt and no job
\* is added; when the pool accepts it nothing is moved to corrupt
C5_SubmitOutcome ==
    [][\A d \in universe.docs :
          (ops' # ops /\ Submit(d)) =>
             IF Accepts(sendCommandPool, d)
             THEN /\ sendCommandPool'.queue =
                         Append(sendCommandPool.queue, JobToken(d, NewDocState, "submit"))
                  /\ Has(store', "pending", d)
                  /\ store'["corrupt"] = store["corrupt"]
             ELSE /\ sendCommandPool' = sendCommandPool
                  /\ ~Has(store', "pending", d)
                  /\ Has(store', "corrupt", d)
                  /\ store'["corrupt"][d] = NewDocState]_vars

\* a rejected duplicate: the document sits in corrupt as it was handed in while the
\* job of the first submission is still in the pool
C5_Witness ==
    \E d \in accepted :
        /\ Has(store, "corrupt", d) /\ store["corrupt"][d] = NewDocState
        /\ ~Has(store, "pending", d)
        /\ JobID(d) \in JobIds(sendCommandPool)

\* C6: when any result the Executor emitted for the document had status
\* success-and-reboot, the tail of the job body requests the reboot latch and moves
\* nothing: the document stays in current and does not enter completed
C6_RebootKeepsCurrent ==
    [][\A j \in sendCommandPool.running :
          (ProcessCommandEnd(j) /\ j.sawReboot) => (rebootPending' /\ store' = store)]_vars

\* the latch is set, the document of the finished job is in current and not completed
C6_Witness ==
    /\ rebootPending
    /\ \E d \in accepted :
          /\ LocationsOf(store, d) = {"current"}
          /\ \A j \in sendCommandPool.running : j.doc # d
          /\ QueuedFor(sendCommandPool, d) = <<>>

\* a document of current that a fresh Processor can recover: supported type, retries
\* left, no second document of current with its job id, room in the queue
Recoverable(d) ==
    /\ Has(store, "current", d)
    /\ isSupportedDocumentType(DocType(d))
    /\ store["current"][d].rc < RetryLimit
    /\ sendCommandPool = EmptyPool
    /\ \A e \in DocsIn(store, "current") : e # d => JobID(e) # JobID(d)
    /\ Cardinality(DocsIn(store, "current")) <= QueueCap

\* C7 (first half): Start re-enqueues every recoverable document of current with
\* run_count incremented by exactly one, the incremented value persisted in current
C7_RecoveryIncrements ==
    [][(ops' # ops /\ Start) =>
          \A d \in AllDocs :
             Recoverable(d) =>
                /\ Has(store', "current", d)
                /\ store'["current"][d].rc = store["current"][d].rc + 1
                /\ QueuedFor(sendCommandPool', d) =
                       <<JobToken(d, store'["current"][d], "current")>>]_vars

C7_Witness ==
    /\ Alive /\ ops < MaxOps
    /\ \E d \in accepted : Recoverable(d) /\ LocationsOf(store, d) = {"current"}

\* C7 (second half): the run_count of a document in current never decreases and is
\* raised only by Start, by exactly one
C7_RunCountMonotone ==
    [][\A d \in AllDocs :
          (Has(store, "current", d) /\ Has(store', "current", d)) =>
             LET rc == store["current"][d].rc
                 rc2 == store'["current"][d].rc
             IN  /\ rc2 >= rc
                 /\ rc2 > rc => (rc2 = rc + 1 /\ Start)]_vars

C9_UnsupportedUntouched ==
    [][(ops' # ops /\ Start) =>
          \A d \in AllDocs :
             ~isSupportedDocumentType(DocType(d)) =>
                /\ \A l \in Locations :
                      /\ Has(store', l, d) <=> Has(store, l, d)
                      /\ Has(store, l, d) => store'[l][d] = store[l][d]
                /\ QueuedFor(sendCommandPool', d) = QueuedFor(sendCommandPool, d)]_vars

\* C10: the jobs one Start enqueues for documents of current all precede the jobs it
\* enqueues for documents of pending, and a worker always takes the head of the queue
C10_CurrentFirst ==
    [][/\ (ops' # ops /\ Start) =>
             LET q == sendCommandPool.queue
                 q2 == sendCommandPool'.queue
             IN  /\ Len(q2) >= Len(q) /\ SubSeq(q2, 1, Len(q)) = q
                 /\ \A i, k \in (Len(q) + 1) .. Len(q2) :
                       i < k => ~(q2[i].origin = "pending" /\ q2[k].origin = "current")
       /\ (sendCommandPool'.queue # sendCommandPool.queue /\ DispatchCommand) =>
             /\ sendCommandPool'.queue = Tail(sendCommandPool.queue)
             /\ \E j \in sendCommandPool'.running \ sendCommandPool.running :
                   j.id = Head(sendCommandPool.queue).id]_vars

\* one Start has recovered a document of current and one of pending
C10_Witness ==
    \E i, k \in DOMAIN sendCommandPool.queue :
        /\ i < k
        /\ sendCommandPool.queue[i].origin = "current"
        /\ sendCommandPool.queue[k].origin = "pending"
        /\ ~IsCancelDoc(sendCommandPool.queue[k].doc)

\* the documents that have a job in the command pool which a Start has enqueued
RecoveredJobs(pool) ==
    {pool.queue[i].doc : i \in {k \in DOMAIN pool.queue : pool.queue[k].origin # "submit"}}
        \cup {j.doc : j \in {r \in pool.running : r.origin # "submit"}}

\* C11: a Start called while the jobs of an earlier Start are still queued or running
\* leaves the location and the run_count of their documents, and their jobs, as they
\* were
C11_StartIdempotent ==
    [][(ops' # ops /\ Start) =>
          \A d \in RecoveredJobs(sendCommandPool) :
             /\ \A l \in Locations :
                   /\ Has(store', l, d) <=> Has(store, l, d)
                   /\ Has(store, l, d) => store'[l][d].rc = store[l][d].rc
             /\ QueuedFor(sendCommandPool', d) = QueuedFor(sendCommandPool, d)]_vars

\* the running command jobs a cancel job for cancel-document c would find
Targets(pool, c) == {t \in pool.running : t.id = CancelMessageID(c)}

\* the status and debug_info of a document in a location
Outcome(st, l, d) == <<st[l][d].status, st[l][d].debug>>

\* C12 (cancel job): when the cancel job runs while its target runs, the target's
\* active token becomes cancelled, Cancel returns found, the cancel-document is
\* persisted with status success and debug_info "cancelled", and the end of the cancel
\* job leaves it in completed with that outcome
C12_CancelFound ==
    [][\A j \in cancelCommandPool.running :
          /\ (ProcessCancelCommand(j) /\ Targets(sendCommandPool, j.doc) # {}) =>
                /\ \A t \in Targets(sendCommandPool, j.doc) :
                      t.token = "active" =>
                         [t EXCEPT !.token = "cancelled"] \in sendCommandPool'.running
                /\ \E j2 \in cancelCommandPool'.running : j2.doc = j.doc /\ j2.found
                /\ Has(store', "current", j.doc)
                /\ Outcome(store', "current", j.doc) = <<"Success", "cancelled">>
          /\ (/\ ProcessCancelCommandEnd(j) /\ j.found
              /\ \E t \in Targets(sendCommandPool, j.doc) : t.token = "cancelled") =>
                /\ Has(store', "completed", j.doc)
                /\ Outcome(store', "completed", j.doc) = <<"Success", "cancelled">>]_vars

\* C12 (target): a command job whose token was cancelled ends with final status
\* cancelled
C12_TargetCancelled ==
    [][\A t \in sendCommandPool.running :
          (ProcessCommandEnd(t) /\ t.token = "cancelled") => t.agg = "Cancelled"]_vars

\* C13 (cancel job): when no job with id cancel_message_id is queued or running in the
\* command pool, Cancel returns found = false and changes nothing in the command pool,
\* the cancel-document is persisted with status failed and debug_info "couldn't be
\* cancelled", and the end of the cancel job leaves it in completed with that outcome
C13_CancelMisses ==
    [][\A j \in cancelCommandPool.running :
          /\ (ProcessCancelCommand(j) /\ CancelMessageID(j.doc) \notin JobIds(sendCommandPool)) =>
                /\ sendCommandPool' = sendCommandPool
                /\ \E j2 \in cancelCommandPool'.running : j2.doc = j.doc /\ ~j2.found
                /\ Has(store', "current", j.doc)
                /\ Outcome(store', "current", j.doc) = <<"Failed", "couldn't be cancelled">>
          /\ (ProcessCancelCommandEnd(j) /\ ~j.found) =>
                /\ Has(store', "completed", j.doc)
                /\ Outcome(store', "completed", j.doc) = <<"Failed", "couldn't be cancelled">>]_vars

\* C13 (target): a command document submitted after a cancel that missed it is accepted
\* with an active token, as on a Processor that never saw the cancel
C13_LateTargetRuns ==
    [][\A d \in universe.docs :
          (/\ ops' # ops /\ Submit(d)
           /\ \E c \in DocsIn(store, "completed") :
                 /\ CancelMessageID(c) = JobID(d)
                 /\ store["completed"][c].status = "Failed"
           /\ Accepts(sendCommandPool, d)) =>
              sendCommandPool'.queue =
                  Append(sendCommandPool.queue, JobToken(d, NewDocState, "submit"))]_vars

\* the jobs of a pool other than the one with job id x: the queue without x, in order,
\* and the running jobs without x
OtherJobs(pool, x) ==
    [queue |-> SelectSeq(pool.queue, LAMBDA t : t.id # x),
     running |-> {t \in pool.running : t.id # x}]

\* the number of jobs of a pool that a step has removed or changed
Affected(pool, pool2) ==
    (Len(pool.queue) - Len(pool2.queue))
        + Cardinality(pool.running \ pool2.running)

\* C14: the cancel job of a cancel-document with cancel_message_id x changes at most one
\* job of the command pool, one whose job id is x; every other job of the command pool
\* keeps its token, its queue position and its progress, the jobs of the cancel pool
\* other than the cancel job itself are unchanged, and so is every stored document other
\* than the cancel-document
C14_CancelOnlyTarget ==
    [][/\ \A c \in universe.docs :
             (ops' # ops /\ Cancel(c)) =>
                /\ sendCommandPool' = sendCommandPool
                /\ \A d \in AllDocs \ {c} : \A l \in Locations :
                      /\ Has(store', l, d) <=> Has(store, l, d)
                      /\ Has(store, l, d) => store'[l][d] = store[l][d]
       /\ \A j \in cancelCommandPool.running :
          ProcessCancelCommand(j) =>
             LET x == CancelMessageID(j.doc)
             IN  /\ OtherJobs(sendCommandPool', x) = OtherJobs(sendCommandPool, x)
                 /\ Len(sendCommandPool'.queue) <= Len(sendCommandPool.queue)
                 /\ Cardinality(sendCommandPool'.running) =
                        Cardinality(sendCommandPool.running)
                 /\ Affected(sendCommandPool, sendCommandPool') <= 1
                 /\ cancelCommandPool'.queue = cancelCommandPool.queue
                 /\ {c \in cancelCommandPool'.running : c.id # j.id}
                        = cancelCommandPool.running \ {j}
                 /\ \A d \in AllDocs \ {j.doc} : \A l \in Locations :
                       /\ Has(store', l, d) <=> Has(store, l, d)
                       /\ Has(store, l, d) => store'[l][d] = store[l][d]]_vars

\* a cancel has hit its target while a job with another id is in the command pool
C14_Witness ==
    /\ \E t \in sendCommandPool.running : t.token = "cancelled"
    /\ \E t \in sendCommandPool.running : t.token = "active"
    /\ \E j \in cancelCommandPool.running : j.pc = "move" /\ j.found

\* the jobs of the command pool whose document is a submitted command document with
\* message id m
JobsOfMessage(pool, m) ==
    {pool.queue[i] : i \in {k \in DOMAIN pool.queue :
                               /\ MessageID(pool.queue[k].doc) = m
                               /\ ~IsCancelDoc(pool.queue[k].doc)}}
        \cup {[id |-> t.id, doc |-> t.doc, rc |-> t.rc, token |-> t.token,
               origin |-> t.origin] :
                 t \in {r \in pool.running : MessageID(r.doc) = m /\ ~IsCancelDoc(r.doc)}}

\* C15: when the cancel job runs and a command document whose message_id is the
\* cancel_message_id has a job queued or running, Cancel returns found and that job is
\* the one cancelled: a queued job leaves the queue, a running job with an active token
\* has it cancelled
C15_CancelByMessageID ==
    [][\A j \in cancelCommandPool.running :
          (ProcessCancelCommand(j)
              /\ JobsOfMessage(sendCommandPool, CancelMessageID(j.doc)) # {}) =>
             /\ \E j2 \in cancelCommandPool'.running : j2.doc = j.doc /\ j2.found
             /\ \A t \in JobsOfMessage(sendCommandPool, CancelMessageID(j.doc)) :
                   /\ t.id \notin QueuedIds(sendCommandPool')
                   /\ \A r \in sendCommandPool'.running :
                         r.id = t.id => r.token # "active"]_vars

\* C16: when Stop returns both pools are shut down and the output stream is closed,
\* and every command job that was in flight has finished or its Executor has ended the
\* document with status shutdown (or with the cancelled status of an earlier cancel)
C16_StopQuiesces ==
    [][StopEnd =>
          /\ sendCommandPool'.shutdown /\ cancelCommandPool'.shutdown
          /\ resChan' = "closed"
          /\ \A j \in sendCommandPool.running : j.pc = "closed"]_vars

\* C17: no job body sends on resChan after Stop has closed it
C17_NoSendAfterClose ==
    [][\A j \in sendCommandPool.running : ForwardResult(j) => resChan = "open"]_vars

\* C18 as stated: after Stop a further Submit or Cancel fails with ProcessorStopped,
\* reported to its caller, and adds no job to a pool
C18_ProcessorStopped ==
    [][\A d \in universe.docs :
          (/\ ops' # ops
           /\ sendCommandPool.shutdown /\ cancelCommandPool.shutdown
           /\ Submit(d) \/ Cancel(d)) =>
              /\ err' = "ProcessorStopped"
              /\ sendCommandPool' = sendCommandPool
              /\ cancelCommandPool' = cancelCommandPool]_vars

\* C18 as amended: after Stop a further Submit or Cancel returns nothing to its caller
\* and adds no job to a pool; Submit moves its document from pending to corrupt, Cancel
\* leaves the cancel-document in pending
C18_StoppedCallsRejected ==
    [][\A d \in universe.docs :
          /\ (/\ ops' # ops
              /\ sendCommandPool.shutdown /\ cancelCommandPool.shutdown
              /\ Submit(d)) =>
                 /\ err' = NoError
                 /\ sendCommandPool' = sendCommandPool
                 /\ cancelCommandPool' = cancelCommandPool
                 /\ Has(store', "corrupt", d) /\ ~Has(store', "pending", d)
          /\ (/\ ops' # ops
              /\ sendCommandPool.shutdown /\ cancelCommandPool.shutdown
              /\ Cancel(d)) =>
                 /\ err' = NoError
                 /\ sendCommandPool' = sendCommandPool
                 /\ cancelCommandPool' = cancelCommandPool
                 /\ Has(store', "pending", d)
                 /\ store'["corrupt"] = store["corrupt"]]_vars

\* Stop, then a Submit and a Cancel: the submitted document is in corrupt, the
\* cancel-document in pending, and neither pool holds a job
C18_Witness ==
    /\ ops = 3
    /\ sendCommandPool.shutdown /\ cancelCommandPool.shutdown
    /\ JobIds(sendCommandPool) = {} /\ JobIds(cancelCommandPool) = {}
    /\ \E d \in accepted : ~IsCancelDoc(d) /\ LocationsOf(store, d) = {"corrupt"}
    /\ \E c \in accepted : IsCancelDoc(c) /\ LocationsOf(store, c) = {"pending"}

\* C19: a command job whose execution the shutdown has ended (final status shutdown)
\* does not move its document to completed or corrupt: the document stays in pending or
\* current, where the next Start finds it
C19_ShutdownResumable ==
    [][\A j \in sendCommandPool.running :
          (ProcessCommandEnd(j) /\ j.token = "shutdown" /\ j.agg = "Shutdown") =>
             /\ LocationsOf(store', j.doc) \cap Terminal = {}
             /\ LocationsOf(store', j.doc) \cap Live # {}]_vars

\* the results of a document in the order the Executor emits them: a prefix of the
\* declared plugins, then possibly the final result (last_plugin empty)
WellOrdered(d, log) ==
    \E n \in 0 .. Len(Plugins(d)) :
        \/ log = SubSeq(Plugins(d), 1, n)
        \/ log = SubSeq(Plugins(d), 1, n) \o <<"">>

IsPrefix(a, b) == Len(a) <= Len(b) /\ a = SubSeq(b, 1, Len(a))

\* C20 (order): in every state the results a job has forwarded are a prefix of those
\* its Executor has emitted, which are plugin results in declared order followed by at
\* most one final result
C20_InOrder ==
    \A j \in sendCommandPool.running :
        /\ WellOrdered(j.doc, j.emitted)
        /\ IsPrefix(j.sent, j.emitted)

\* C20: every result the Executor emits is forwarded once, in emission order: each send
\* in processCommand puts the pending result on the output stream, and a job body ends
\* only after it has forwarded all the plugin results and the one final result
C20_ExactlyOnce ==
    [][\A j \in sendCommandPool.running :
          /\ WellOrdered(j.doc, j.emitted) /\ IsPrefix(j.sent, j.emitted)
          /\ ForwardResult(j) =>
                \E j2 \in sendCommandPool'.running :
                    j2.id = j.id /\ j2.sent = Append(j.sent, j.res.last)
          /\ ProcessCommandEnd(j) =>
                /\ j.sent = j.emitted
                /\ j.sent # <<>> /\ j.sent[Len(j.sent)] = ""]_vars

\* C21 (drain): a command document enters completed only by the tail of its own job
\* body, after the Executor has closed the stream and every emitted result, the final
\* one included, has been forwarded
C21_DrainedBeforeMove ==
    [][\A d \in AllDocs :
          (~IsCancelDoc(d) /\ Has(store', "completed", d) /\ ~Has(store, "completed", d)) =>
             \E j \in sendCommandPool.running :
                /\ j.doc = d /\ ProcessCommandEnd(j)
                /\ j.pc = "closed" /\ j.sent = j.emitted
                /\ j.sent # <<>> /\ j.sent[Len(j.sent)] = ""]_vars

\* C21: a command document is moved to completed only after its stream is closed and
\* drained, no result of a document is sent while the document is in completed, and a
\* job body that ends without a reboot request in its results leaves the document in
\* completed
C21_CompletedAfterDrain ==
    [][\A j \in sendCommandPool.running :
          ~IsCancelDoc(j.doc) =>
             /\ (ProcessCommandEnd(j) /\ store' # store) =>
                   j.pc = "closed" /\ j.sent = j.emitted
             /\ (ForwardResult(j) /\ resChan = "open") => ~Has(store, "completed", j.doc)
             /\ (ProcessCommandEnd(j) /\ ~j.sawReboot) =>
                   Has(store', "completed", j.doc)]_vars

\* the job id I5 prescribes for a document
DerivedJobID(d) == IF AssociationID(d) # "" THEN AssociationID(d) ELSE MessageID(d)

\* no two jobs of the pool share a job id
UniqueJobIds(pool) ==
    Cardinality(JobIds(pool)) = Len(pool.queue) + Cardinality(pool.running)

\* every job of the pool carries the job id derived from its document
DerivedJobIds(pool) ==
    /\ \A i \in DOMAIN pool.queue : pool.queue[i].id = DerivedJobID(pool.queue[i].doc)
    /\ \A j \in pool.running : j.id = DerivedJobID(j.doc)

\* C22: every job of the command pool has the association id of its document as job id
\* when the document is an association and its message id otherwise, no two jobs queued
\* or running in one pool share a job id, and a Submit whose job id is queued or running
\* adds no job
C22_JobIdUnique ==
    [][/\ DerivedJobIds(sendCommandPool') /\ DerivedJobIds(cancelCommandPool')
       /\ UniqueJobIds(sendCommandPool') /\ UniqueJobIds(cancelCommandPool')
       /\ \A d \in universe.docs :
             (ops' # ops /\ Submit(d) /\ DerivedJobID(d) \in JobIds(sendCommandPool)) =>
                sendCommandPool' = sendCommandPool]_vars

\* the job of an association is in the command pool under its association id while a
\* second Submit of the association has been rejected
C22_Witness ==
    /\ \E j \in sendCommandPool.running :
          IsAssociation(j.doc) /\ j.id = AssociationID(j.doc) /\ j.id # MessageID(j.doc)
    /\ \E d \in accepted : IsAssociation(d) /\ Has(store, "corrupt", d)
    /\ ops >= 2

\* C23: Submit of a document whose type is outside the supported set moves it to
\* corrupt, returns without error and enqueues no job, no plugin of such a document is
\* ever run, and Start enqueues no job for it
C23_InvalidToCorrupt ==
    [][/\ \A d \in universe.docs :
             (ops' # ops /\ Submit(d) /\ ~isSupportedDocumentType(DocType(d))) =>
                /\ LocationsOf(store', d) = {"corrupt"}
                /\ sendCommandPool' = sendCommandPool
                /\ err' = NoError
       /\ \A j \in sendCommandPool.running :
             (ExecutorPlugin(j) /\ store' # store) => isSupportedDocumentType(DocType(j.doc))
       /\ (ops' # ops /\ Start) =>
             \A d \in AllDocs :
                ~isSupportedDocumentType(DocType(d)) =>
                   QueuedFor(sendCommandPool', d) = QueuedFor(sendCommandPool, d)]_vars

\* C24: a Stop that has told the pools to shut down eventually closes the output
\* stream and returns (unless the process dies first), whatever the jobs do: no
\* fairness is assumed for the plugins or for the reader of the output stream
C24_StopReturns ==
    (sendCommandPool.shutdown /\ resChan = "open")
        ~> (resChan = "closed" \/ ~sendCommandPool.shutdown)

\* Stop has returned while a job body still holds a result it has not handed over and
\* another plugin has not come back
C24_Witness ==
    /\ resChan = "closed" /\ Alive
    /\ \E j \in sendCommandPool.running : j.res # NoRes \/ j.pc = "plugins"

\* C25: a job body whose stream closed with a last result of status in-progress sets
\* no reboot latch and moves the document from current to completed; the document is
\* then neither in pending nor in current, so a later Start enqueues no job for it
C25_InProgressIsFinished ==
    [][/\ \A j \in sendCommandPool.running :
             (ProcessCommandEnd(j) /\ j.agg = "InProgress") =>
                /\ ~j.isReboot /\ rebootPending' = rebootPending
                /\ Has(store, "current", j.doc) =>
                      /\ Has(store', "completed", j.doc)
                      /\ store'["completed"][j.doc] = store["current"][j.doc]
                /\ LocationsOf(store', j.doc) \cap Live = {}
       /\ (ops' # ops /\ Start) =>
             \A d \in AllDocs :
                LocationsOf(store, d) \cap Live = {} =>
                   /\ QueuedFor(sendCommandPool', d) = QueuedFor(sendCommandPool, d)
                   /\ LocationsOf(store', d) = LocationsOf(store, d)]_vars

\* the stream of a document has closed with a last result of status in-progress, the
\* job body has forwarded every result and found no reboot request; the document is in
\* current
C25_Witness ==
    \E j \in sendCommandPool.running :
        /\ j.pc = "closed" /\ j.res = NoRes /\ j.sent = j.emitted
        /\ j.agg = "InProgress" /\ ~j.isReboot
        /\ LocationsOf(store, j.doc) = {"current"}

Retried(st) ==
    {d \in DocsIn(st, "current") :
        /\ isSupportedDocumentType(DocType(d))
        /\ st["current"][d].rc < RetryLimit}

\* the jobs a Start has added to the queue of the command pool
Enqueued(pool, pool2) ==
    {pool2.queue[i] : i \in (Len(pool.queue) + 1) .. Len(pool2.queue)}

\* C27: a document of current that Start tries to enqueue either gets its job and stays
\* in current with its run_count incremented - whatever happens to another document
\* with the same job id - or, when the command pool rejects the job, is moved from
\* current to corrupt and no job body runs for it
C27_RecoveryRejected ==
    [][(ops' # ops /\ Start) =>
          \A d \in Retried(store) :
             \/ /\ Has(store', "current", d)
                /\ store'["current"][d].rc = store["current"][d].rc + 1
                /\ JobToken(d, store'["current"][d], "current")
                       \in Enqueued(sendCommandPool, sendCommandPool')
             \/ /\ \A t \in Enqueued(sendCommandPool, sendCommandPool') : t.doc # d
                /\ Has(store', "corrupt", d) /\ ~Has(store', "current", d)
                /\ QueuedFor(sendCommandPool', d) = <<>>
                /\ \A j \in sendCommandPool'.running : j.doc # d]_vars

\* C28: no job of the command pool is for a cancel-document, no plugin run by the
\* Executor belongs to one, and Start enqueues no job for a cancel-document that is in
\* completed
C28_CancelNeverCommand ==
    [][/\ \A i \in DOMAIN sendCommandPool'.queue : ~IsCancelDoc(sendCommandPool'.queue[i].doc)
       /\ \A j \in sendCommandPool'.running : ~IsCancelDoc(j.doc)
       /\ (ops' # ops /\ Start) =>
             \A c \in DocsIn(store, "completed") :
                IsCancelDoc(c) => QueuedFor(sendCommandPool', c) = QueuedFor(sendCommandPool, c)]_vars

\* the documents that have a job queued or running in the pool
DocsWithJob(pool) ==
    {pool.queue[i].doc : i \in DOMAIN pool.queue} \cup {j.doc : j \in pool.running}

\* C29: a Submit of a document whose job is still queued or running leaves the command
\* pool and every location and the content of the stored document as they were
C29_DuplicateSubmitFrame ==
    [][\A d \in universe.docs :
          (ops' # ops /\ Submit(d) /\ d \in DocsWithJob(sendCommandPool)) =>
             /\ sendCommandPool' = sendCommandPool
             /\ \A l \in Locations :
                   /\ Has(store', l, d) <=> Has(store, l, d)
                   /\ Has(store, l, d) => store'[l][d] = store[l][d]]_vars

\* a cancel job has found the command with message id m and recorded "cancelled"
CancelRecorded(st, m) ==
    \E c \in AllDocs : \E l \in {"current", "completed"} :
        /\ IsCancelDoc(c) /\ CancelMessageID(c) = m
        /\ Has(st, l, c) /\ Outcome(st, l, c) = <<"Success", "cancelled">>

\* C30: once a cancel job has recorded "cancelled" for a command, the document of that
\* command is not in pending and no plugin of it is executed, in this run or after a
\* restart and Start
C30_CancelIsFinal ==
    [][/\ \A d \in universe.docs :
             (~IsCancelDoc(d) /\ CancelRecorded(store', JobID(d))) =>
                ~Has(store', "pending", d)
       /\ \A j \in sendCommandPool.running :
             (ExecutorPlugin(j) /\ j.token = "active" /\ ~IsCancelDoc(j.doc)) =>
                ~CancelRecorded(store, j.id)]_vars

----------------------------------------------------------------------------
\* The aws:updateSsmAgent plugin (agent/plugins/updatessmagent), run by a worker on
\* its own: Plugin.Execute, runUpdateAgent and the updateManager helpers

\* the variables of the Processor, which the plugins do not touch
procVars == <<store, sendCommandPool, cancelCommandPool, resChan, rebootPending,
              panicked, universe, accepted, ops, err>>

\* no Processor activity while a plugin is looked at on its own
IdleProcessor == InitProcessor(Scenario({}, {}))

\* property sets in the plugin's configuration
MaxProps == 2

\* agent versions, as dotted numbers
Versions == {<<1, 9>>, <<1, 10>>, <<2, 0>>}

\* strconv.Itoa: the decimal digits of a number, as bytes
RECURSIVE Itoa(_)
Itoa(n) == IF n < 10 THEN <<48 + n>> ELSE Itoa(n \div 10) \o <<48 + (n % 10)>>

\* a version as the string the agent carries: the numbers joined by '.'
RECURSIVE VersionString(_)
VersionString(v) ==
    IF Len(v) = 0 THEN <<>>
    ELSE IF Len(v) = 1 THEN Itoa(v[1])
    ELSE Itoa(v[1]) \o <<46>> \o VersionString(Tail(v))

VersionStrings == {VersionString(v) : v \in Versions}

\* the operator < of Go on strings: bytewise lexicographic order
RECURSIVE StringLess(_, _)
StringLess(s, t) ==
    IF Len(t) = 0 THEN FALSE
    ELSE IF Len(s) = 0 THEN TRUE
    ELSE IF s[1] # t[1] THEN s[1] < t[1]
    ELSE StringLess(Tail(s), Tail(t))

\* strconv.ParseBool
ParseBool(str) ==
    IF str \in {"1", "t", "T", "TRUE", "true", "True"} THEN [value |-> TRUE, err |-> "nil"]
    ELSE IF str \in {"0", "f", "F", "FALSE", "false", "False"}
         THEN [value |-> FALSE, err |-> "nil"]
    ELSE [value |-> FALSE, err |-> "ParseBoolError"]

\* the property sets a document may carry; an empty TargetVersion asks for the latest
PluginInputs ==
    [TargetVersion : VersionStrings \cup {<<>>}, AllowDowngrade : {"true", "false", "yes"}]

InvalidInput == [invalid |-> TRUE]

\* a parsed manifest: the latest version it names for the agent (or none) and the
\* versions it lists for the platform
NilManifest == [nil |-> TRUE]

NoLatest == "LatestVersionError"

Manifests ==
    [latest : {[version |-> VersionString(<<2, 0>>), err |-> "nil"],
               [version |-> <<>>, err |-> NoLatest]},
     versions : {VersionStrings, VersionStrings \ {VersionString(<<1, 9>>)}, {}}]

\* what the methods of a manifest may answer: a parsed manifest answers from its
\* content; on the nil manifest a method panics or answers anything
ManifestViews(manifest) ==
    IF manifest = NilManifest THEN Manifests \cup {NilManifest} ELSE {manifest}

\* results of artifact.Download
Downloads == [err : {"nil", "DownloadError"}, IsHashMatched : BOOLEAN, LocalFilePath : {"", "file"}]

\* downloadManifest: folderErr is the error of CreateUpdateDownloadFolder, dl the
\* result of fileDownload, parsed the result of ParseManifest
downloadManifest(folderErr, dl, parsed) ==
    IF folderErr # "nil" THEN [manifest |-> NilManifest, err |-> folderErr]
    ELSE IF dl.err # "nil" \/ dl.IsHashMatched = FALSE \/ dl.LocalFilePath = ""
         THEN [manifest |-> NilManifest, err |-> dl.err]
    ELSE parsed

ParseResults ==
    {[manifest |-> m, err |-> "nil"] : m \in Manifests}
        \cup {[manifest |-> NilManifest, err |-> "ParseManifestError"]}

\* validateUpdate; view is what the manifest's methods answer
ValidateResult(noNeed, e, status, target, allow) ==
    [noNeedToUpdate |-> noNeed, err |-> e, status |-> status, target |-> target,
     allowDowngrade |-> allow, panic |-> FALSE]

ValidatePanic(target) ==
    [noNeedToUpdate |-> FALSE, err |-> "nil", status |-> "", target |-> target,
     allowDowngrade |-> FALSE, panic |-> TRUE]

validateUpdate(pluginInput, currentVersion, view) ==
    IF Len(pluginInput.TargetVersion) = 0 /\ view = NilManifest
    THEN ValidatePanic(pluginInput.TargetVersion)
    ELSE IF Len(pluginInput.TargetVersion) = 0 /\ view.latest.err # "nil"
    THEN ValidateResult(TRUE, view.latest.err, "", view.latest.version, FALSE)
    ELSE
      LET target == IF Len(pluginInput.TargetVersion) = 0 THEN view.latest.version
                    ELSE pluginInput.TargetVersion
          b == ParseBool(pluginInput.AllowDowngrade)
      IN  IF b.err # "nil" THEN ValidateResult(TRUE, b.err, "", target, FALSE)
          ELSE IF target = currentVersion
          THEN ValidateResult(TRUE, "nil", "Success", target, b.value)
          ELSE IF StringLess(target, currentVersion) /\ ~b.value
          THEN ValidateResult(TRUE, "OlderVersion", "", target, b.value)
          ELSE IF view = NilManifest THEN ValidatePanic(target)
          ELSE IF target \notin view.versions
          THEN ValidateResult(TRUE, "TargetUnsupported", "", target, b.value)
          ELSE IF currentVersion \notin view.versions
          THEN ValidateResult(TRUE, "CurrentUnsupported", "", target, b.value)
          ELSE ValidateResult(FALSE, "nil", "", target, b.value)

\* PluginOutput.Merge: the first status is taken, a later one only if it is worse
Merge(status, other) == IF status = "" THEN other ELSE Worst(status, other)

\* the state of one call of runUpdateAgent
NoValidate == [called |-> FALSE]

NoDownload == [called |-> FALSE]

NewUpdate ==
    [input |-> InvalidInput, manifest |-> NilManifest, dl |-> NoDownload, calls |-> <<>>,
     status |-> "", v |-> NoValidate, failed |-> {}]

InitUpdatePlugin ==
    /\ IdleProcessor
    /\ \E n \in 0 .. MaxProps : \E cur \in VersionStrings :
          plugin = [kind |-> "update", pc |-> "LoadParametersAsList", flag |-> "active",
                    n |-> n, i |-> 0, started |-> 0, current |-> cur, out |-> "",
                    res |-> "", broke |-> "", upd |-> NewUpdate]

AtUpdate(pc) == plugin.kind = "update" /\ plugin.pc = pc

\* the Processor signals the token of the job the plugin runs in
SetCancelFlag(how) ==
    /\ plugin.kind = "update" /\ plugin.pc \notin {"done", "panic"}
    /\ plugin.flag = "active"
    /\ plugin' = [plugin EXCEPT !.flag = how]
    /\ UNCHANGED procVars

LoadParametersAsList(ok) ==
    /\ AtUpdate("LoadParametersAsList")
    /\ plugin' = IF ok THEN [plugin EXCEPT !.pc = "ShutDown"]
                 ELSE [plugin EXCEPT !.pc = "done", !.res = "Failed"]
    /\ UNCHANGED procVars

\* head of the loop over the property sets and the first poll of the cancel flag
PollShutDown ==
    /\ AtUpdate("ShutDown")
    /\ plugin' = IF plugin.i = plugin.n THEN [plugin EXCEPT !.pc = "return"]
                 ELSE IF plugin.flag = "shutdown"
                 THEN [plugin EXCEPT !.out = "Shutdown", !.broke = "Shutdown",
                                     !.pc = "return"]
                 ELSE [plugin EXCEPT !.pc = "Canceled"]
    /\ UNCHANGED procVars

\* variant of the second poll that marks the output cancelled and goes on with the
\* property set
PollCanceled_NoBreak ==
    /\ AtUpdate("Canceled")
    /\ plugin' = IF plugin.flag = "cancelled"
                 THEN [plugin EXCEPT !.out = "Cancelled", !.broke = "Cancelled",
                                     !.pc = "Remarshal", !.started = @ + 1,
                                     !.upd = NewUpdate]
                 ELSE [plugin EXCEPT !.pc = "Remarshal", !.started = @ + 1,
                                     !.upd = NewUpdate]
    /\ UNCHANGED procVars

\* the second poll; updateAgent is called when neither poll saw the flag set
PollCanceled ==
    /\ AtUpdate("Canceled")
    /\ plugin' = IF plugin.flag = "cancelled"
                 THEN [plugin EXCEPT !.out = "Cancelled", !.broke = "Cancelled",
                                     !.pc = "return"]
                 ELSE [plugin EXCEPT !.pc = "Remarshal", !.started = @ + 1,
                                     !.upd = NewUpdate]
    /\ UNCHANGED procVars

\* a step of runUpdateAgent has been called and has passed or failed: on an error the
\* output is marked failed and runUpdateAgent returns
Called(step, ok, next) ==
    [plugin EXCEPT !.upd.calls = Append(@, step),
                   !.upd.failed = IF ok THEN @ ELSE @ \cup {step},
                   !.upd.status = IF ok THEN @ ELSE "Failed",
                   !.pc = IF ok THEN next ELSE "Merge"]

Remarshal ==
    /\ AtUpdate("Remarshal")
    /\ \E in \in PluginInputs \cup {InvalidInput} :
          plugin' = [Called("Remarshal", in # InvalidInput, "CreateInstanceContext")
                        EXCEPT !.upd.input = in]
    /\ UNCHANGED procVars

CreateInstanceContext ==
    /\ AtUpdate("CreateInstanceContext")
    /\ \E ok \in BOOLEAN : plugin' = Called("CreateInstanceContext", ok, "downloadManifest")
    /\ UNCHANGED procVars

DownloadManifest ==
    /\ AtUpdate("downloadManifest")
    /\ \E folderErr \in {"nil", "FolderError"} : \E dl \in Downloads :
       \E parsed \in ParseResults :
          LET r == downloadManifest(folderErr, dl, parsed)
          IN  plugin' = [Called("downloadManifest", r.err = "nil", "validateUpdate")
                            EXCEPT !.upd.manifest = r.manifest,
                                   !.upd.dl = IF folderErr = "nil" THEN dl ELSE NoDownload]
    /\ UNCHANGED procVars

ValidateUpdate ==
    /\ AtUpdate("validateUpdate")
    /\ \E view \in ManifestViews(plugin.upd.manifest) :
          LET r == validateUpdate(plugin.upd.input, plugin.current, view)
              p == [plugin EXCEPT !.upd.calls = Append(@, "validateUpdate"),
                                  !.upd.v = r,
                                  !.upd.input.TargetVersion = r.target]
          IN  plugin' =
                 IF r.panic THEN [p EXCEPT !.pc = "panic"]
                 ELSE IF r.noNeedToUpdate
                 THEN [p EXCEPT !.upd.status = IF r.err # "nil" THEN "Failed" ELSE r.status,
                                !.upd.failed = IF r.err # "nil" THEN @ \cup {"validateUpdate"}
                                               ELSE @,
                                !.pc = "Merge"]
                 ELSE [p EXCEPT !.pc = "downloadUpdater"]
    /\ UNCHANGED procVars

DownloadUpdater ==
    /\ AtUpdate("downloadUpdater")
    /\ \E ok \in BOOLEAN : plugin' = Called("downloadUpdater", ok, "generateUpdateCmd")
    /\ UNCHANGED procVars

GenerateUpdateCmd ==
    /\ AtUpdate("generateUpdateCmd")
    /\ \E ok \in BOOLEAN : plugin' = Called("generateUpdateCmd", ok, "SaveUpdatePluginResult")
    /\ UNCHANGED procVars

SaveUpdatePluginResult ==
    /\ AtUpdate("SaveUpdatePluginResult")
    /\ \E ok \in BOOLEAN :
          plugin' = Called("SaveUpdatePluginResult", ok, "IsDiskSpaceSufficientForUpdate")
    /\ UNCHANGED procVars

\* the disk-space check: only a check that succeeds and finds too little space stops
\* the update; an error of the check itself lets the update go on
IsDiskSpaceSufficientForUpdate ==
    /\ AtUpdate("IsDiskSpaceSufficientForUpdate")
    /\ \E r \in [err : {"nil", "DiskError"}, isDiskSpaceSufficient : BOOLEAN] :
          LET stop == r.err = "nil" /\ ~r.isDiskSpaceSufficient
              p == Called("IsDiskSpaceSufficientForUpdate", ~stop, "ExeCommand")
          IN  plugin' = [p EXCEPT !.upd.failed = IF r.err # "nil"
                                                 THEN @ \cup {"IsDiskSpaceSufficientForUpdate"}
                                                 ELSE @]
    /\ UNCHANGED procVars

\* the updater is started: the update is handed over and reported as in progress
ExeCommand ==
    /\ AtUpdate("ExeCommand")
    /\ \E ok \in BOOLEAN :
          plugin' = [Called("ExeCommand", ok, "Merge")
                        EXCEPT !.upd.status = IF ok THEN "InProgress" ELSE "Failed"]
    /\ UNCHANGED procVars

\* runUpdateAgent has returned: its output is merged into that of Execute
MergeOutput ==
    /\ AtUpdate("Merge")
    /\ plugin' = [plugin EXCEPT !.out = Merge(@, plugin.upd.status), !.i = @ + 1,
                                !.pc = "ShutDown"]
    /\ UNCHANGED procVars

ExecuteReturn ==
    /\ AtUpdate("return")
    /\ plugin' = [plugin EXCEPT !.res = plugin.out, !.pc = "done"]
    /\ UNCHANGED procVars

NextUpdatePlugin ==
    \/ \E how \in {"cancelled", "shutdown"} : SetCancelFlag(how)
    \/ \E ok \in BOOLEAN : LoadParametersAsList(ok)
    \/ PollShutDown
    \/ PollCanceled
    \/ Remarshal
    \/ CreateInstanceContext
    \/ DownloadManifest
    \/ ValidateUpdate
    \/ DownloadUpdater
    \/ GenerateUpdateCmd
    \/ SaveUpdatePluginResult
    \/ IsDiskSpaceSufficientForUpdate
    \/ ExeCommand
    \/ MergeOutput
    \/ ExecuteReturn

SpecUpdatePlugin == InitUpdatePlugin /\ [][NextUpdatePlugin]_vars

----------------------------------------------------------------------------
\* Properties of the update plugin

\* C31: Execute polls the cancel flag before each property set. A poll that finds
\* the flag shutdown (first poll) or cancelled (second poll) starts no update for
\* this or any later property set and sets the output status to Shutdown,
\* respectively Cancelled; an update is started only after both polls found the flag
\* unset; the status the poll has set is never changed afterwards and is the status
\* of the result Execute returns.
C31_FlagPolledBeforeEachSet ==
    [][(plugin' # plugin /\ plugin.kind = "update") =>
          /\ (plugin.pc = "ShutDown" /\ plugin.i < plugin.n /\ plugin.flag = "shutdown")
                => (plugin'.out = "Shutdown" /\ plugin'.pc = "return"
                    /\ plugin'.started = plugin.started)
          /\ (plugin.pc = "Canceled" /\ plugin.flag = "cancelled")
                => (plugin'.out = "Cancelled" /\ plugin'.pc = "return"
                    /\ plugin'.started = plugin.started)
          /\ plugin'.started # plugin.started
                => (plugin.pc = "Canceled" /\ plugin.flag # "cancelled" /\ plugin.broke = "")
          /\ plugin.broke # ""
                => (plugin'.started = plugin.started /\ plugin'.out = plugin.broke
                    /\ plugin'.broke = plugin.broke /\ plugin'.i = plugin.i)
          /\ (plugin'.pc = "done" /\ plugin.broke # "") => plugin'.res = plugin.broke]_vars

\* Execute has returned Cancelled although the update of an earlier property set had
\* failed, and a property set was left without an update
C31_Witness ==
    /\ plugin.kind = "update" /\ plugin.pc = "done"
    /\ plugin.broke = "Cancelled" /\ plugin.res = "Cancelled"
    /\ plugin.started = 1 /\ plugin.n = 2 /\ plugin.i = 1
    /\ plugin.upd.status = "Failed"

\* the steps of runUpdateAgent, in the order of the code
UpdateSteps ==
    <<"Remarshal", "CreateInstanceContext", "downloadManifest", "validateUpdate",
      "downloadUpdater", "generateUpdateCmd", "SaveUpdatePluginResult",
      "IsDiskSpaceSufficientForUpdate", "ExeCommand">>

Called_ExeCommand(u) == \E k \in DOMAIN u.calls : u.calls[k] = "ExeCommand"

\* the download of the manifest did not yield a file whose hash matches
UnreliableDownload(u) ==
    /\ u.dl # NoDownload
    /\ (u.dl.err # "nil" \/ ~u.dl.IsHashMatched \/ u.dl.LocalFilePath = "")

\* a step before the hand-over has failed
CheckFailed(u) == (u.failed \ {"ExeCommand"}) # {} \/ UnreliableDownload(u)

\* C32: the updater is executed only after all eight steps before it have been called
\* in order and have passed; once runUpdateAgent has returned, a failed step means the
\* output is Failed and the updater was not executed, and a validation that found the
\* target version installed means the output is Success and the updater was not
\* executed.
C32_UpdaterOnlyAfterChecks ==
    plugin.kind = "update" =>
       LET u == plugin.upd
       IN  /\ Called_ExeCommand(u) => (u.calls = UpdateSteps /\ ~CheckFailed(u))
           /\ (plugin.pc = "Merge" /\ CheckFailed(u))
                 => (u.status = "Failed" /\ ~Called_ExeCommand(u))
           /\ (plugin.pc = "Merge" /\ u.v # NoValidate /\ u.v.noNeedToUpdate
               /\ u.v.err = "nil")
                 => (u.status = "Success" /\ ~Called_ExeCommand(u)
                     /\ u.v.target = plugin.current)

\* C33: downloadManifest returns no nil manifest with a nil error: validateUpdate is
\* reached only with a parsed manifest, and after a download with an error, a hash
\* mismatch or an empty local file path runUpdateAgent has returned with the output
\* marked failed.
C33_NoNilManifestWithoutError ==
    (plugin.kind = "update" /\ plugin.upd.dl # NoDownload) =>
       /\ plugin.pc = "validateUpdate" => plugin.upd.manifest # NilManifest
       /\ UnreliableDownload(plugin.upd)
             => (plugin.pc \in {"Merge", "ShutDown", "Canceled", "return", "done"}
                 /\ plugin.upd.status = "Failed"
                 /\ plugin.upd.calls = SubSeq(UpdateSteps, 1, 3))

\* version v is older than version w, compared number by number
RECURSIVE VersionOlder(_, _)
VersionOlder(v, w) ==
    IF Len(v) = 0 \/ Len(w) = 0 THEN Len(v) < Len(w)
    ELSE IF v[1] # w[1] THEN v[1] < w[1]
    ELSE VersionOlder(Tail(v), Tail(w))

\* C34: whenever validateUpdate, called with a parsed manifest, has resolved the
\* target version and parsed allowDowngrade, it returns the "older version" error exactly when the target is
\* older than the running version as a dotted number and allowDowngrade is false.
C34_OlderRefusedExactly ==
    (plugin.kind = "update" /\ plugin.upd.v # NoValidate
     /\ plugin.upd.manifest # NilManifest) =>
       LET r == plugin.upd.v
       IN  (~r.panic /\ r.err \notin {NoLatest, "ParseBoolError"}) =>
              \A t, c \in Versions :
                 (r.target = VersionString(t) /\ plugin.current = VersionString(c)) =>
                    ((r.err = "OlderVersion") <=> (VersionOlder(t, c) /\ ~r.allowDowngrade))

----------------------------------------------------------------------------
\* The inventory plugin (agent/inventory): ApplyInventoryPolicy, ValidateGatherers,
\* RunGatherers and VerifyInventoryDataSize

\* items one gatherer returns at most
MaxItems == 2

\* gatherer names a policy document may carry
GathererNames == {"app", "net", "win", "bogus"}

\* p.supportedGatherers: the gatherers of this platform, by name
supportedGatherers == {"app", "net"}

\* p.installedGathereres: the gatherers of all platforms, by name
installedGathereres == {"app", "net", "win"}

\* model.Config of one gatherer
Configs == {"Enabled", "Disabled"}

\* model.Policy.InventoryPolicy: gatherer name -> config
Policies == UNION {[S -> Configs] : S \in SUBSET GathererNames}

\* the loop of ValidateGatherers over the names of the policy in the order the map
\* yields them
RECURSIVE ValidateLoop(_, _, _)
ValidateLoop(policy, order, executors) ==
    IF order = <<>> THEN [executors |-> executors, err |-> "nil"]
    ELSE LET name == Head(order)
         IN  IF name \notin supportedGatherers
             THEN IF name \in installedGathereres
                  THEN ValidateLoop(policy, Tail(order), executors)
                  ELSE [executors |-> executors, err |-> "UnrecognizedGatherer"]
             ELSE ValidateLoop(policy, Tail(order), (name :> policy[name]) @@ executors)

\* variant of ValidateGatherers that also refuses a gatherer of another platform
ValidateGatherers_RefuseUnsupported(policy, order) ==
    LET r == ValidateLoop(policy, order, <<>>)
    IN  IF \E name \in DOMAIN policy : name \notin supportedGatherers
        THEN [r EXCEPT !.err = "UnrecognizedGatherer"]
        ELSE r

ValidateGatherers(policy, order) ==
    ValidateLoop(policy, order, <<>>)

\* size limits of SSM, in KB
SizeLimitKBPerInventoryType == 200

TotalSizeLimitKB == 1024

\* sizes in bytes of the JSON form of the items a gatherer may return
ItemSizes == {100 * 1024, 300 * 1024, 600 * 1024}

RECURSIVE Sum(_)
Sum(seq) == IF seq = <<>> THEN 0 ELSE Head(seq) + Sum(Tail(seq))

\* len(json.Marshal(items)): null for the nil slice, else the items, the commas and
\* the brackets
JsonArraySize(items) == IF Len(items) = 0 THEN 4 ELSE Sum(items) + Len(items) + 1

\* an item is the size of its JSON form; size/1024 > limit on float32 values that
\* are exact for these sizes
VerifyInventoryDataSize(item, items) ==
    ~(item > SizeLimitKBPerInventoryType * 1024
      \/ JsonArraySize(items) > TotalSizeLimitKB * 1024)

\* what gatherer.Run may return
GathererRuns ==
    {[items |-> <<>>, err |-> "RunError"]}
        \cup {[items |-> s, err |-> "nil"] :
                 s \in UNION {[1 .. n -> ItemSizes] : n \in 0 .. MaxItems}}

\* variant of the loop body of RunGatherers that goes on after a gatherer has failed
RunOne_ContinueOnError(st, name, run) ==
    IF run.err # "nil"
    THEN [st EXCEPT !.err = run.err, !.ran = Append(@, name), !.failed = @ \cup {name}]
    ELSE LET items == st.items \o run.items
             breach == \E k \in DOMAIN run.items :
                          ~VerifyInventoryDataSize(run.items[k], items)
         IN  [st EXCEPT !.items = items, !.ran = Append(@, name),
                        !.err = IF breach THEN "SizeLimitExceeded" ELSE "nil",
                        !.breachAt = IF breach /\ @ = 0 THEN Len(st.ran) + 1 ELSE @]

\* the loop body of RunGatherers for one gatherer: st.stop says that the loop over the
\* gatherers is left
RunOne(st, name, run) ==
    IF run.err # "nil"
    THEN [st EXCEPT !.err = run.err, !.ran = Append(@, name), !.stop = TRUE,
                    !.failed = @ \cup {name}]
    ELSE LET items == st.items \o run.items
             breach == \E k \in DOMAIN run.items :
                          ~VerifyInventoryDataSize(run.items[k], items)
         IN  [st EXCEPT !.items = items, !.ran = Append(@, name),
                        !.err = IF breach THEN "SizeLimitExceeded" ELSE "nil",
                        !.breachAt = IF breach /\ @ = 0 THEN Len(st.ran) + 1 ELSE @]

NewRun == [items |-> <<>>, err |-> "nil", ran |-> <<>>, stop |-> FALSE, breachAt |-> 0,
           failed |-> {}]

NoPolicy == [file |-> "missing"]

\* the policy document at p.location
PolicyFiles ==
    {NoPolicy, [file |-> "unreadable"], [file |-> "unparseable"]}
        \cup {[file |-> "policy", policy |-> p] : p \in Policies}

NotValidated == [called |-> FALSE]

InitInventory ==
    /\ IdleProcessor
    /\ \E doc \in PolicyFiles :
          plugin = [kind |-> "inventory", pc |-> "ApplyInventoryPolicy", doc |-> doc,
                    v |-> NotValidated, todo |-> <<>>, run |-> NewRun,
                    convertErr |-> "none", sent |-> <<>>]

AtInventory(pc) == plugin.kind = "inventory" /\ plugin.pc = pc

\* ApplyInventoryPolicy up to the parsed policy
ReadPolicy ==
    /\ AtInventory("ApplyInventoryPolicy")
    /\ plugin' = [plugin EXCEPT !.pc = IF plugin.doc.file = "policy"
                                       THEN "ValidateGatherers" ELSE "done"]
    /\ UNCHANGED procVars

ApplyValidateGatherers ==
    /\ AtInventory("ValidateGatherers")
    /\ \E order \in Listings(DOMAIN plugin.doc.policy) :
          LET r == ValidateGatherers(plugin.doc.policy, order)
          IN  IF r.err # "nil"
              THEN plugin' = [plugin EXCEPT !.v = r, !.pc = "done"]
              ELSE \E gorder \in Listings(DOMAIN r.executors) :
                      plugin' = [plugin EXCEPT !.v = r, !.todo = gorder,
                                               !.pc = "RunGatherers"]
    /\ UNCHANGED procVars

\* one iteration of the loop of RunGatherers
RunGatherer ==
    /\ AtInventory("RunGatherers")
    /\ plugin.todo # <<>> /\ ~plugin.run.stop
    /\ \E run \in GathererRuns :
          plugin' = [plugin EXCEPT !.run = RunOne(@, Head(plugin.todo), run),
                                   !.todo = Tail(@)]
    /\ UNCHANGED procVars

\* RunGatherers returns to ApplyInventoryPolicy
RunGatherersReturn ==
    /\ AtInventory("RunGatherers")
    /\ plugin.todo = <<>> \/ plugin.run.stop
    /\ plugin' = [plugin EXCEPT !.pc = IF plugin.run.err # "nil" THEN "done"
                                       ELSE "ConvertToSsmInventoryItems"]
    /\ UNCHANGED procVars

ConvertToSsmInventoryItems ==
    /\ AtInventory("ConvertToSsmInventoryItems")
    /\ \E e \in {"nil", "ConvertError"} :
          plugin' = [plugin EXCEPT !.convertErr = e, !.pc = "SendDataToSSM"]
    /\ UNCHANGED procVars

SendDataToSSM ==
    /\ AtInventory("SendDataToSSM")
    /\ plugin' = [plugin EXCEPT !.sent = Append(@, [convertErr |-> plugin.convertErr,
                                                     ran |-> plugin.run.ran]),
                                !.pc = "done"]
    /\ UNCHANGED procVars

NextInventory ==
    \/ ReadPolicy
    \/ ApplyValidateGatherers
    \/ RunGatherer
    \/ RunGatherersReturn
    \/ ConvertToSsmInventoryItems
    \/ SendDataToSSM

SpecInventory == InitInventory /\ [][NextInventory]_vars

----------------------------------------------------------------------------
\* Properties of the inventory plugin

\* C35: once VerifyInventoryDataSize has rejected an item of a gatherer, the error of
\* RunGatherers is and stays non-nil and no further gatherer is run.
C35_SizeBreachIsError ==
    (plugin.kind = "inventory" /\ plugin.run.breachAt > 0) =>
       (plugin.run.err # "nil" /\ Len(plugin.run.ran) = plugin.run.breachAt)

\* C36: SendDataToSSM is called only after ConvertToSsmInventoryItems has returned no
\* error.
C36_SendOnlyConverted ==
    plugin.kind = "inventory" =>
       \A k \in DOMAIN plugin.sent : plugin.sent[k].convertErr = "nil"

\* the gatherers of a policy that run on this platform
Eligible(policy) == DOMAIN policy \cap supportedGatherers

Unrecognized(policy) == DOMAIN policy \ (supportedGatherers \cup installedGathereres)

\* C37: data is sent to SSM only for a policy document that was read and parsed, names
\* no unrecognized gatherer and whose eligible gatherers have all run without an
\* error; in every other case ApplyInventoryPolicy ends with nothing sent.
C37_NoPartialData ==
    plugin.kind = "inventory" =>
       /\ plugin.sent # <<>> =>
             /\ Len(plugin.sent) = 1
             /\ plugin.doc.file = "policy"
             /\ plugin.v # NotValidated
             /\ plugin.v.err = "nil"
             /\ Unrecognized(plugin.doc.policy) = {}
             /\ plugin.run.failed = {}
             /\ {plugin.sent[1].ran[k] : k \in DOMAIN plugin.sent[1].ran}
                    = Eligible(plugin.doc.policy)
       /\ (plugin.pc = "done"
           /\ (\/ plugin.doc.file # "policy"
               \/ Unrecognized(plugin.doc.policy) # {}
               \/ plugin.run.failed # {}))
             => plugin.sent = <<>>

\* both gatherers of the platform have run for a policy that also names a gatherer of
\* another platform, and their data has been sent
C37_Witness ==
    /\ plugin.kind = "inventory" /\ plugin.pc = "done"
    /\ Len(plugin.sent) = 1 /\ Len(plugin.sent[1].ran) = 2
    /\ "win" \in DOMAIN plugin.doc.policy
    /\ Len(plugin.run.items) = 2

\* C38: ValidateGatherers returns an error exactly for a policy that names a gatherer
\* neither supported nor installed; without an error the map it returns holds exactly
\* the supported gatherers of the policy, each with the config of the policy.
C38_ValidateGatherers ==
    (plugin.kind = "inventory" /\ plugin.v # NotValidated) =>
       LET policy == plugin.doc.policy
       IN  /\ plugin.v.err # "nil" <=> Unrecognized(policy) # {}
           /\ plugin.v.err = "nil" =>
                 plugin.v.executors = [name \in Eligible(policy) |-> policy[name]]

\* a policy with a gatherer of another platform and two supported gatherers with
\* different configs has been validated without error
C38_Witness ==
    /\ plugin.kind = "inventory" /\ plugin.v # NotValidated
    /\ plugin.v.err = "nil"
    /\ "win" \in DOMAIN plugin.doc.policy
    /\ DOMAIN plugin.v.executors = {"app", "net"}
    /\ plugin.v.executors["app"] # plugin.v.executors["net"]

----------------------------------------------------------------------------
\* The install steps of the configurecontainers plugin on Windows
\* (windowscontainerutil.RunInstallCommands), with the machine it runs on

\* calls of RunInstallCommands on one machine
MaxRuns == 3

\* the machine: the containers package (Nano Server) or feature is absent, installed
\* with a restart pending, or installed; the machine path holds the Docker directory or
\* not; the Docker service is unregistered (""), Stopped or Running
Machines ==
    [nano : BOOLEAN, package : {"absent", "installed"}, path : BOOLEAN,
     service : {"", "Stopped", "Running"}]

NewInstall(afterReboot, m) ==
    [pc |-> "PlatformVersion", requireReboot |-> FALSE, calls |-> {}, status |-> "",
     afterReboot |-> afterReboot, start |-> m, serviceRunning |-> FALSE]

InitContainers ==
    /\ IdleProcessor
    /\ \E m \in Machines :
          plugin = [kind |-> "containers", m |-> m, r |-> NewInstall(FALSE, m), runs |-> 1]

AtInstall(pc) == plugin.kind = "containers" /\ plugin.r.pc = pc

\* out.MarkAsFailed(...); return out
InstallFailed(p) == [p EXCEPT !.r.status = "Failed", !.r.pc = "done"]

\* dep.PlatformVersion and dep.IsPlatformNanoServer
DetectPlatform ==
    /\ AtInstall("PlatformVersion")
    /\ \E outcome \in {"PlatformVersionError", "NotWindows10", "NanoServerError", "ok"} :
          plugin' = IF outcome = "ok" THEN [plugin EXCEPT !.r.pc = "InstallContainers"]
                    ELSE InstallFailed(plugin)
    /\ UNCHANGED procVars

\* the containers package of Nano Server or the containers feature of Windows Server:
\* queried, and installed when the query does not report it
InstallContainers ==
    /\ AtInstall("InstallContainers")
    /\ \E queryOk \in BOOLEAN : \E installOk \in BOOLEAN : \E reported \in BOOLEAN :
       \E restartNeeded \in {"Yes", "No"} :
          LET packageInstalled ==
                  IF plugin.m.package = "pending" THEN reported
                  ELSE plugin.m.package = "installed"
              restart == plugin.m.nano \/ restartNeeded = "Yes"
              p == [plugin EXCEPT !.r.calls = @ \cup {"InstallContainers"}]
          IN  plugin' =
                 IF ~queryOk THEN InstallFailed(plugin)
                 ELSE IF packageInstalled THEN [plugin EXCEPT !.r.pc = "SetDaemonConfig"]
                 ELSE IF ~installOk THEN InstallFailed(p)
                 ELSE [p EXCEPT !.m.package = IF restart THEN "pending" ELSE "installed",
                                !.r.requireReboot = restart,
                                !.r.pc = "SetDaemonConfig"]
    /\ UNCHANGED procVars

\* the daemon config file, the download of Docker and the path of the process and of
\* the machine
ConfigureDocker ==
    /\ AtInstall("SetDaemonConfig")
    /\ \E outcome \in {"SetDaemonConfigError", "RegistryError", "SetxError", "ok"} :
          plugin' =
             IF outcome \in {"SetDaemonConfigError", "RegistryError"}
                \/ (outcome = "SetxError" /\ ~plugin.m.path)
             THEN InstallFailed(plugin)
             ELSE [plugin EXCEPT !.m.path = TRUE, !.r.pc = "requireReboot",
                                 !.r.calls = @ \cup {"ConfigureDocker"}]
    /\ UNCHANGED procVars

\* variant of the reboot check that sets the status and goes on to the service
RebootCheck_Continue ==
    /\ AtInstall("requireReboot")
    /\ plugin' = IF plugin.r.requireReboot
                 THEN [plugin EXCEPT !.r.status = "SuccessAndReboot",
                                     !.r.pc = "RegisterService"]
                 ELSE [plugin EXCEPT !.r.pc = "RegisterService"]
    /\ UNCHANGED procVars

\* reboot if needed
RebootCheck ==
    /\ AtInstall("requireReboot")
    /\ plugin' = IF plugin.r.requireReboot
                 THEN [plugin EXCEPT !.r.status = "SuccessAndReboot", !.r.pc = "done"]
                 ELSE [plugin EXCEPT !.r.pc = "RegisterService"]
    /\ UNCHANGED procVars

\* the status of the Docker service is read; an unregistered service is registered
\* and set to delayed start
RegisterService ==
    /\ AtInstall("RegisterService")
    /\ \E outcome \in {"GetServiceError", "RegisterError", "ScConfigError",
                       "AutoStartDelayError", "ok"} :
          LET registered == plugin.m.service # ""
              p == [plugin EXCEPT !.r.calls = @ \cup {"RegisterService"},
                                  !.r.serviceRunning = (plugin.m.service = "Running")]
          IN  plugin' =
                 IF outcome = "GetServiceError" THEN InstallFailed(plugin)
                 ELSE IF outcome = "RegisterError" /\ ~registered THEN InstallFailed(p)
                 ELSE IF outcome = "ScConfigError" /\ ~registered
                 THEN InstallFailed([p EXCEPT !.m.service = "Stopped"])
                 ELSE IF outcome = "AutoStartDelayError"
                 THEN InstallFailed([p EXCEPT !.m.service = IF registered THEN @
                                                             ELSE "Stopped"])
                 ELSE [p EXCEPT !.m.service = IF registered THEN @ ELSE "Stopped",
                                !.r.pc = "StartService"]
    /\ UNCHANGED procVars

\* the service is started unless it was running, and the installation is complete
StartService ==
    /\ AtInstall("StartService")
    /\ \E ok \in BOOLEAN :
          plugin' =
             IF plugin.r.serviceRunning
             THEN [plugin EXCEPT !.r.status = "Success", !.r.pc = "done"]
             ELSE IF ~ok THEN InstallFailed([plugin EXCEPT !.r.calls = @ \cup {"StartService"}])
             ELSE [plugin EXCEPT !.r.calls = @ \cup {"StartService"},
                                 !.m.service = "Running",
                                 !.r.status = "Success", !.r.pc = "done"]
    /\ UNCHANGED procVars

\* the agent reboots the machine on SuccessAndReboot and resumes the document: the
\* pending installation completes, a registered service may have started
Reboot ==
    /\ AtInstall("done") /\ plugin.r.status = "SuccessAndReboot"
    /\ plugin.runs < MaxRuns
    /\ \E started \in BOOLEAN :
          LET m == [plugin.m EXCEPT
                       !.package = IF @ = "pending" THEN "installed" ELSE @,
                       !.service = IF @ = "" THEN ""
                                   ELSE IF started THEN "Running" ELSE "Stopped"]
          IN  plugin' = [plugin EXCEPT !.m = m, !.r = NewInstall(TRUE, m), !.runs = @ + 1]
    /\ UNCHANGED procVars

\* the document is sent to the machine once more
RunAgain ==
    /\ AtInstall("done") /\ plugin.r.status # "SuccessAndReboot"
    /\ plugin.runs < MaxRuns
    /\ plugin' = [plugin EXCEPT !.r = NewInstall(FALSE, plugin.m), !.runs = @ + 1]
    /\ UNCHANGED procVars

NextContainers ==
    \/ DetectPlatform
    \/ InstallContainers
    \/ ConfigureDocker
    \/ RebootCheck
    \/ RegisterService
    \/ StartService
    \/ Reboot
    \/ RunAgain

SpecContainers == InitContainers /\ [][NextContainers]_vars

----------------------------------------------------------------------------
\* Properties of RunInstallCommands

ServiceCalls == {"RegisterService", "StartService"}

\* C39: a call of RunInstallCommands returns SuccessAndReboot exactly when its
\* installation of the containers package or feature required a restart, and then it
\* has not touched the Docker service; a call after the reboot that finds the package
\* installed requests no reboot and ends with status Success and the service running.
C39_RebootExactly ==
    (plugin.kind = "containers" /\ plugin.r.pc = "done") =>
       /\ plugin.r.status = "SuccessAndReboot" <=> plugin.r.requireReboot
       /\ plugin.r.status = "SuccessAndReboot"
             => (plugin.r.calls \cap ServiceCalls = {}
                 /\ plugin.m.service = plugin.r.start.service)
       /\ (plugin.r.afterReboot /\ plugin.r.start.package = "installed")
             => (plugin.r.status = "Success" /\ plugin.m.service = "Running")

\* C39, amended: a call returns SuccessAndReboot exactly when it has installed the
\* package or feature, the installation required a restart and the Docker
\* configuration steps before the reboot check have passed, and then it has not
\* touched the Docker service; a call that finds the package installed, as every call
\* after the reboot does, requests no reboot, and unless one of its steps fails it
\* reaches the service steps and ends with status Success and the service running.
C39_RebootOnlyAfterConfig ==
    (plugin.kind = "containers" /\ plugin.r.pc = "done") =>
       /\ plugin.r.status = "SuccessAndReboot"
             <=> (plugin.r.requireReboot /\ "ConfigureDocker" \in plugin.r.calls)
       /\ plugin.r.requireReboot
             => ("InstallContainers" \in plugin.r.calls
                 /\ plugin.r.start.package # "installed"
                 /\ plugin.m.package = "pending")
       /\ plugin.r.status = "SuccessAndReboot"
             => (plugin.r.calls \cap ServiceCalls = {}
                 /\ plugin.m.service = plugin.r.start.service)
       /\ plugin.r.afterReboot => plugin.r.start.package = "installed"
       /\ plugin.r.start.package = "installed"
             => /\ ~plugin.r.requireReboot
                /\ plugin.r.status \in {"Success", "Failed"}
                /\ plugin.r.status = "Success"
                      => ("RegisterService" \in plugin.r.calls
                          /\ plugin.m.service = "Running")

\* the call after the reboot has registered and started the service and returned
\* Success
C39_Witness ==
    /\ plugin.kind = "containers" /\ plugin.r.pc = "done"
    /\ plugin.r.afterReboot /\ plugin.runs = 2
    /\ plugin.r.status = "Success"
    /\ plugin.r.start.service = "" /\ plugin.m.service = "Running"
    /\ plugin.r.calls = {"ConfigureDocker", "RegisterService", "StartService"}

====
